---- MODULE Spec2Model ----
(***************************************************************************)
(* State-machine model of web/cabdash.js, the browser front end of the     *)
(* Pub/Sub-over-WebSockets taxi dashboard.                                 *)
(*                                                                         *)
(* The state is the script's globals (rides, totalMeter, totalUpdates,     *)
(* totalPassengers, avgDensity, messageSeq, activeRides, ws), the          *)
(* WebSocket objects it has created, and the parts of the DOM it writes    *)
(* (the taxi logo class, the alert message, the ride cards).  One action   *)
(* models each handler: the connect button, the socket's open / close /    *)
(* error / message events and the periodic cycle timer.                    *)
(*                                                                         *)
(* Abstractions: meter readings are integers (fare units); a ride carries  *)
(* ride_id, ride_status, meter_reading, passenger_count and the locally    *)
(* assigned sequenceNumber (position and timestamp are not modelled, nor   *)
(* the clock-dependent rate and lag labels); ride identifiers are ordinary *)
(* non-numeric keys, so Object.keys(rides) lists them in insertion order;  *)
(* of the alert message only its opacity is kept, of a ride card only its  *)
(* slot index and the ride it shows.                                       *)
(***************************************************************************)
EXTENDS Integers, Sequences, FiniteSets, TLC

\* ---------------------------------------------------------------- bounds
MaxRideId     == 2   \* ride identifiers the feed carries: 1..MaxRideId
MaxMeter      == 1   \* meter readings: 0..MaxMeter
MaxPassengers == 1   \* passenger counts: 0..MaxPassengers
MaxEvents     == 2   \* events processed per session (caps totalUpdates)
MaxStream     == 3   \* events processed in the single-session specification
MaxSockets    == 2   \* WebSocket objects created in a run
MaxShown      == 1   \* the timer is explored while fewer cards are shown
MaxCardRides  == 10  \* rides of the feed in the card-window specification

\* ------------------------------------------------------ program constants
maxNumRideCards == 9

\* readyState values of a WebSocket
readyState == [CONNECTING |-> 0, OPEN |-> 1, CLOSING |-> 2, CLOSED |-> 3]
CONNECTING == readyState.CONNECTING
OPEN       == readyState.OPEN
CLOSING    == readyState.CLOSING
CLOSED     == readyState.CLOSED

RideIds    == 1..MaxRideId
Statuses   == {"pickup", "enroute", "dropoff"}
Meters     == 0..MaxMeter
Passengers == 0..MaxPassengers

\* A decoded inbound event record (the argument of processRide).
Events ==
  [ride_id : RideIds, ride_status : Statuses,
   meter_reading : Meters, passenger_count : Passengers]

\* JSON.parse(event.data) of the payload "null"
Null == [ride_id |-> 0, ride_status |-> "null",
         meter_reading |-> 0, passenger_count |-> 0]

Payloads == Events \cup {Null}

VARIABLES
  rides,            \* registry: records in key (insertion) order
  totalMeter,
  totalUpdates,
  totalPassengers,
  avgDensity,
  messageSeq,
  activeRides,
  ws,               \* 0 = undefined, else index into sockets
  sockets,          \* readyState of every WebSocket created so far
  logo,             \* class of the #taxilogo element
  alert,            \* #alert-message: its opacity
  cards,            \* children of #containerDiv
  log,              \* history: the events processed since clearStats
  flashes,          \* history: flashMessage calls per status since clearStats
  refreshed         \* history: the refreshCard calls of the latest cycle()

vars == <<rides, totalMeter, totalUpdates, totalPassengers, avgDensity,
          messageSeq, activeRides, ws, sockets, logo, alert, cards,
          log, flashes, refreshed>>

\* -------------------------------------------------- the registry object
SeqToSet(s) == {s[i] : i \in 1..Len(s)}

\* Object.keys(rides)
Keys(rs) == [i \in 1..Len(rs) |-> rs[i].ride_id]

\* rides[id] is truthy
Has(rs, id) == \E i \in 1..Len(rs) : rs[i].ride_id = id

\* rides[id], for a present id
Get(rs, id) == rs[CHOOSE i \in 1..Len(rs) : rs[i].ride_id = id]

\* rides[ride.ride_id] = ride : replaces in place, or adds a new last key
Put(rs, ride) ==
  IF Has(rs, ride.ride_id)
  THEN [i \in 1..Len(rs) |->
          IF rs[i].ride_id = ride.ride_id THEN ride ELSE rs[i]]
  ELSE Append(rs, ride)

\* delete rides[id]
Delete(rs, id) == SelectSeq(rs, LAMBDA r : r.ride_id # id)

RECURSIVE SumMeter(_)
SumMeter(rs) ==
  IF rs = <<>> THEN 0 ELSE Head(rs).meter_reading + SumMeter(Tail(rs))

RECURSIVE SumPassengers(_)
SumPassengers(rs) ==
  IF rs = <<>> THEN 0 ELSE Head(rs).passenger_count + SumPassengers(Tail(rs))

\* ------------------------------------------------------------ arithmetic
Abs(n) == IF n < 0 THEN -n ELSE n

\* (a / b).toFixed(2) for integers a, b: the quotient in hundredths, rounded
\* half away from zero, or the non-finite result of dividing by zero.
ToFixed2(a, b) ==
  IF b = 0
  THEN IF a = 0 THEN <<"NaN", 0>>
       ELSE IF a > 0 THEN <<"Infinity", 0>> ELSE <<"-Infinity", 0>>
  ELSE LET m == (200 * Abs(a) + Abs(b)) \div (2 * Abs(b))
       IN  <<"num", IF (a < 0) # (b < 0) THEN -m ELSE m>>

\* sequence(ride) if the counter were incremented before the ride is tagged
sequenceTaggedAfterIncrement(rs, ride, seq) ==
  Put(rs, [ride_id |-> ride.ride_id, ride_status |-> ride.ride_status,
           meter_reading |-> ride.meter_reading,
           passenger_count |-> ride.passenger_count,
           sequenceNumber |-> seq + 1])

\* ------------------------------------------------------------- sequence
\* sequence(ride): tag with messageSeq and store in the registry
sequence(rs, ride, seq) ==
  Put(rs, [ride_id |-> ride.ride_id, ride_status |-> ride.ride_status,
           meter_reading |-> ride.meter_reading,
           passenger_count |-> ride.passenger_count,
           sequenceNumber |-> seq])

\* ------------------------------------------------------ updateMeterTotal
\* totalPassengers after updateMeterTotal(ride, isNewRide)
PassengersAfter(ride, isNewRide, tp) ==
  IF ride.ride_status = "dropoff" THEN tp - ride.passenger_count
  ELSE IF isNewRide THEN tp + ride.passenger_count
  ELSE tp

\* totalMeter after updateMeterTotal(ride, isNewRide), where rs is the
\* registry as updateMeterTotal finds it
MeterAfter(ride, isNewRide, rs, tm) ==
  IF ride.ride_status = "dropoff" THEN tm - ride.meter_reading
  ELSE IF isNewRide THEN tm + ride.meter_reading
  ELSE IF Has(rs, ride.ride_id)
       THEN tm + (ride.meter_reading - Get(rs, ride.ride_id).meter_reading)
       ELSE tm

\* the fare-per-passenger text that updateStats renders (local mpp)
mpp == ToFixed2(totalMeter, totalPassengers)

\* ------------------------------------------------------------ processRide
\* Classify with the first-sighting rule broken: a first event whose status
\* is pickup is notified like a repeat pickup.
ClassifyNotifyingFirstPickup(ride) ==
  IF ~Has(rides, ride.ride_id)
  THEN [isNewRide |-> TRUE, flash |-> (ride.ride_status = "pickup"),
        activeRides |-> activeRides + 1,
        rides |-> sequence(rides, ride, messageSeq),
        messageSeq |-> messageSeq + 1]
  ELSE IF ride.ride_status = "dropoff"
  THEN [isNewRide |-> FALSE, flash |-> TRUE,
        activeRides |-> activeRides - 1,
        rides |-> Delete(rides, ride.ride_id),
        messageSeq |-> messageSeq]
  ELSE [isNewRide |-> FALSE, flash |-> (ride.ride_status = "pickup"),
        activeRides |-> activeRides,
        rides |-> sequence(rides, ride, messageSeq),
        messageSeq |-> messageSeq + 1]

\* The classification part of processRide: what happens to the registry,
\* the counters and the alert before updateStats is called.
Classify(ride) ==
  IF ~Has(rides, ride.ride_id)
  THEN [isNewRide |-> TRUE, flash |-> FALSE,
        activeRides |-> activeRides + 1,
        rides |-> sequence(rides, ride, messageSeq),
        messageSeq |-> messageSeq + 1]
  ELSE IF ride.ride_status = "dropoff"
  THEN [isNewRide |-> FALSE, flash |-> TRUE,
        activeRides |-> activeRides - 1,
        rides |-> Delete(rides, ride.ride_id),
        messageSeq |-> messageSeq]
  ELSE [isNewRide |-> FALSE, flash |-> (ride.ride_status = "pickup"),
        activeRides |-> activeRides,
        rides |-> sequence(rides, ride, messageSeq),
        messageSeq |-> messageSeq + 1]

\* flashMessage(ride): the alert element after the call
flashMessage(ride) == [opacity |-> 1]

processRide(ride) ==
  LET c == Classify(ride) IN
  /\ rides' = c.rides
  /\ activeRides' = c.activeRides
  /\ messageSeq' = c.messageSeq
  /\ alert' = IF c.flash THEN flashMessage(ride) ELSE alert
  /\ flashes' = IF c.flash
                THEN [flashes EXCEPT ![ride.ride_status] = @ + 1]
                ELSE flashes
     \* updateStats(ride, isNewRide)
  /\ totalUpdates' = totalUpdates + 1
  /\ totalPassengers' = PassengersAfter(ride, c.isNewRide, totalPassengers)
  /\ totalMeter' = MeterAfter(ride, c.isNewRide, c.rides, totalMeter)
  /\ avgDensity' =
       ToFixed2(PassengersAfter(ride, c.isNewRide, totalPassengers),
                c.activeRides)
  /\ log' = Append(log, ride)

\* ------------------------------------------------------------------ Init
NoFlashes == [s \in Statuses |-> 0]
NoAlert == [opacity |-> 0]

Init ==
  /\ rides = <<>>
  /\ totalMeter = 0
  /\ totalUpdates = 0
  /\ totalPassengers = 0
  /\ avgDensity = <<"num", 0>>
  /\ messageSeq = 1
  /\ activeRides = 0
  /\ ws = 0
  /\ sockets = <<>>
  /\ logo = "initial"
  /\ alert = NoAlert
  /\ cards = <<>>
  /\ log = <<>>
  /\ flashes = NoFlashes
  /\ refreshed = <<>>

\* --------------------------------------------------------------- connect
\* ws && ws.readyState === 1
IsOpen == IF ws = 0 THEN FALSE ELSE sockets[ws] = OPEN

\* connect(), first branch: no socket, or the current one is not open
ConnectNew ==
  /\ ~IsOpen
  /\ Len(sockets) < MaxSockets
  /\ sockets' = Append(sockets, CONNECTING)
  /\ ws' = Len(sockets) + 1
     \* clearStats()
  /\ totalMeter' = 0
  /\ totalUpdates' = 0
  /\ totalPassengers' = 0
  /\ avgDensity' = <<"num", 0>>
  /\ activeRides' = 0
  /\ rides' = <<>>
  /\ messageSeq' = 0
     \* clearCards()
  /\ cards' = <<>>
  /\ alert' = [alert EXCEPT !.opacity = 0]
  /\ log' = <<>>
  /\ flashes' = NoFlashes
  /\ refreshed' = <<>>
  /\ UNCHANGED logo

\* The disconnect branch of connect() if it reset the active-ride counter
\* together with the registry.
DisconnectResettingActiveRides ==
  /\ IsOpen
  /\ sockets' = [sockets EXCEPT ![ws] = CLOSING]
  /\ ws' = 0
  /\ rides' = <<>>
  /\ activeRides' = 0
  /\ UNCHANGED <<totalMeter, totalUpdates, totalPassengers, avgDensity,
                 messageSeq, logo, alert, cards, log, flashes, refreshed>>

\* connect(), second branch: the current socket is open
Disconnect ==
  /\ IsOpen
  /\ sockets' = [sockets EXCEPT ![ws] = CLOSING]
  /\ ws' = 0
  /\ rides' = <<>>
  /\ UNCHANGED <<totalMeter, totalUpdates, totalPassengers, avgDensity,
                 messageSeq, activeRides, logo, alert, cards, log, flashes,
                 refreshed>>

\* --------------------------------------------------------- socket events
core == <<rides, totalMeter, totalUpdates, totalPassengers, avgDensity,
          messageSeq, activeRides, alert, cards, log, flashes, refreshed>>

\* ws.onopen of socket s
OnOpen(s) ==
  /\ sockets[s] = CONNECTING
  /\ sockets' = [sockets EXCEPT ![s] = OPEN]
  /\ logo' = "connected"
  /\ UNCHANGED <<core, ws>>

\* ws.onclose of socket s if the handler emptied the registry
OnCloseClearingRegistry(s) ==
  /\ sockets[s] # CLOSED
  /\ sockets' = [sockets EXCEPT ![s] = CLOSED]
  /\ logo' = "disconnected"
  /\ rides' = <<>>
  /\ UNCHANGED <<totalMeter, totalUpdates, totalPassengers, avgDensity,
                 messageSeq, activeRides, alert, cards, log, flashes,
                 refreshed, ws>>

\* ws.onclose of socket s
OnClose(s) ==
  /\ sockets[s] # CLOSED
  /\ sockets' = [sockets EXCEPT ![s] = CLOSED]
  /\ logo' = "disconnected"
  /\ UNCHANGED <<core, ws>>

\* ws.onerror of socket s (the connection fails; its close event follows)
OnError(s) ==
  /\ sockets[s] \in {CONNECTING, OPEN}
  /\ sockets' = [sockets EXCEPT ![s] = CLOSING]
  /\ logo' = "disconnected"
  /\ UNCHANGED <<core, ws>>

\* ws.onmessage of socket s with JSON.parse(event.data) = ride; the session
\* is explored up to cap processed events
OnMessageUpTo(s, ride, cap) ==
  /\ sockets[s] = OPEN
  /\ IF ride = Null
     THEN UNCHANGED vars
     ELSE /\ totalUpdates < cap
          /\ processRide(ride)
          /\ UNCHANGED <<ws, sockets, logo, cards, refreshed>>

OnMessage(s, ride) == OnMessageUpTo(s, ride, MaxEvents)

\* ----------------------------------------------------------------- cycle
\* Array.prototype.slice(start) with no end
Slice(a, start) ==
  LET from == IF start < 0
              THEN (IF Len(a) + start < 0 THEN 0 ELSE Len(a) + start)
              ELSE (IF start > Len(a) THEN Len(a) ELSE start)
  IN  SubSeq(a, from + 1, Len(a))

\* makeCard(ride, index)
makeCard(ride, index) == [index |-> index, ride_id |-> ride.ride_id]

\* refreshCard with the card limit off by one: a card is still created when
\* maxNumRideCards cards are shown.
refreshCardOneTooMany(cs, ride, cardIndex) ==
  IF Len(cs) <= maxNumRideCards
  THEN Append(cs, makeCard(ride, cardIndex))
  ELSE IF \E k \in 1..Len(cs) : cs[k].index = cardIndex
       THEN LET first == CHOOSE k \in 1..Len(cs) :
                           /\ cs[k].index = cardIndex
                           /\ \A j \in 1..(k - 1) : cs[j].index # cardIndex
            IN  [cs EXCEPT ![first] = makeCard(ride, cardIndex)]
       ELSE cs

\* refreshCard(ride, cardIndex), for a ride that is present
refreshCard(cs, ride, cardIndex) ==
  IF Len(cs) < maxNumRideCards
  THEN Append(cs, makeCard(ride, cardIndex))
  ELSE IF \E k \in 1..Len(cs) : cs[k].index = cardIndex
       THEN LET first == CHOOSE k \in 1..Len(cs) :
                           /\ cs[k].index = cardIndex
                           /\ \A j \in 1..(k - 1) : cs[j].index # cardIndex
            IN  [cs EXCEPT ![first] = makeCard(ride, cardIndex)]
       ELSE cs

\* the loop of cycle(): slots i .. maxNumRideCards - 1 over rideSample
RECURSIVE CycleFrom(_, _, _)
CycleFrom(cs, rideSample, i) ==
  IF i >= maxNumRideCards THEN cs
  ELSE CycleFrom(
         IF i + 1 <= Len(rideSample) /\ Has(rides, rideSample[i + 1])
         THEN refreshCard(cs, Get(rides, rideSample[i + 1]), i)
         ELSE cs,
         rideSample, i + 1)

\* the refreshCard(ride, i) calls the loop of cycle() makes, in order
RECURSIVE CallsFrom(_, _)
CallsFrom(rideSample, i) ==
  IF i >= maxNumRideCards THEN <<>>
  ELSE (IF i + 1 <= Len(rideSample) /\ Has(rides, rideSample[i + 1])
        THEN <<makeCard(Get(rides, rideSample[i + 1]), i)>>
        ELSE <<>>) \o CallsFrom(rideSample, i + 1)

\* const rideSample = Object.keys(rides).slice(activeRides - maxNumRideCards)
rideSample == Slice(Keys(rides), activeRides - maxNumRideCards)

\* cycle(), the timer callback
Tick ==
  /\ IF IsOpen
     THEN /\ cards' = CycleFrom(cards, rideSample, 0)
          /\ refreshed' = CallsFrom(rideSample, 0)
     ELSE /\ cards' = cards
          /\ refreshed' = <<>>
  /\ UNCHANGED <<rides, totalMeter, totalUpdates, totalPassengers, avgDensity,
                 messageSeq, activeRides, ws, sockets, logo, alert,
                 log, flashes>>

\* a tick, explored while fewer than MaxShown cards are shown
Cycle ==
  /\ Len(cards) < MaxShown
  /\ Tick

\* ------------------------------------------------------------------ Next
Next ==
  \/ ConnectNew
  \/ Disconnect
  \/ \E s \in 1..Len(sockets) : OnOpen(s)
  \/ \E s \in 1..Len(sockets) : OnClose(s)
  \/ \E s \in 1..Len(sockets) : OnError(s)
  \/ \E s \in 1..Len(sockets) : \E ride \in Payloads : OnMessage(s, ride)
  \/ Cycle

Spec == Init /\ [][Next]_vars

\* --------------------------------------------------- one connected session
\* The state once connect() has run on page load and the socket has opened;
\* from there only ride events arrive on that socket.
InitSession ==
  /\ rides = <<>>
  /\ totalMeter = 0
  /\ totalUpdates = 0
  /\ totalPassengers = 0
  /\ avgDensity = <<"num", 0>>
  /\ messageSeq = 0
  /\ activeRides = 0
  /\ ws = 1
  /\ sockets = <<OPEN>>
  /\ logo = "connected"
  /\ alert = NoAlert
  /\ cards = <<>>
  /\ log = <<>>
  /\ flashes = NoFlashes
  /\ refreshed = <<>>

NextSession == \E ride \in Payloads : OnMessageUpTo(ws, ride, MaxStream)

SpecSession == InitSession /\ [][NextSession]_vars

\* ------------------------------------------------------- the card window
\* The first event of ride k of a feed whose rides arrive one after another.
Arrival(k) == [ride_id |-> k, ride_status |-> "pickup",
               meter_reading |-> 0, passenger_count |-> 0]

\* ws.onmessage of socket s with the first event of the next ride of the feed
Arrive(s) ==
  \E k \in 1..MaxCardRides :
    /\ k = Len(rides) + 1
    /\ OnMessageUpTo(s, Arrival(k), MaxCardRides)

\* Page load, the connect button, the socket events, a feed of up to
\* MaxCardRides rides and the timer, with as many ticks as the timer gives.
NextCards ==
  \/ ConnectNew
  \/ Disconnect
  \/ \E s \in 1..Len(sockets) : OnOpen(s)
  \/ \E s \in 1..Len(sockets) : OnClose(s)
  \/ \E s \in 1..Len(sockets) : Arrive(s)
  \/ Tick

SpecCards == Init /\ [][NextCards]_vars

\* ================================================================ claims
\* The step processes event ride: processRide(ride) ran to completion.
Processes(ride) == log' = Append(log, ride)

\* The most recent event processed for id since the last reset, or Null.
LastOf(id) ==
  LET at == {i \in 1..Len(log) : log[i].ride_id = id}
  IN  IF at = {} THEN Null
      ELSE log[CHOOSE i \in at : \A j \in at : j <= i]

\* No user-initiated disconnect has emptied the registry since the last reset
\* (connect() leaves ws undefined only in its disconnect branch).
InSession == ws # 0

\* No identifier changed its passenger count between two of its events.
SamePassengers ==
  \A i, j \in 1..Len(log) :
    log[i].ride_id = log[j].ride_id =>
      log[i].passenger_count = log[j].passenger_count

\* C1: within a session, an identifier is in the registry if and only if an
\* event for it has been processed and the most recent one was not a dropoff.
C1_RegistryMembership ==
  InSession =>
    \A id \in RideIds :
      Has(rides, id) <=>
        (LastOf(id) # Null /\ LastOf(id).ride_status # "dropoff")

\* C2: in every reachable state the active-ride counter equals the number of
\* identifiers in the registry.
C2_ActiveRidesIsRegistrySize == activeRides = Len(rides)

\* C3: after any sequence of events since the last reset, totalMeter equals
\* the sum of meter_reading over the rides in the registry.
C3_TotalMeterIsSum == InSession => totalMeter = SumMeter(rides)

\* C4: after any sequence of events since the last reset in which no ride's
\* passenger count changes between its events, totalPassengers equals the sum
\* of passenger_count over the rides in the registry.
C4_TotalPassengersIsSum ==
  (InSession /\ SamePassengers) => totalPassengers = SumPassengers(rides)

\* C5: a non-terminal event for a ride already in the registry changes the
\* total fare by the event's meter reading minus the meter reading of the
\* record held before the event, and leaves total passengers unchanged.
C5_UpdateAddsDelta ==
  [][\A ride \in Events :
       (/\ Processes(ride)
        /\ Has(rides, ride.ride_id)
        /\ ride.ride_status # "dropoff")
       => /\ totalMeter' = totalMeter + (ride.meter_reading
                             - Get(rides, ride.ride_id).meter_reading)
          /\ totalPassengers' = totalPassengers]_vars

\* C6: a dropoff for a ride in the registry subtracts from the totals the
\* passenger count and meter reading of the registry record of that ride,
\* not the values the dropoff event carries.
C6_DropoffSubtractsRecord ==
  [][\A ride \in Events :
       (/\ Processes(ride)
        /\ Has(rides, ride.ride_id)
        /\ ride.ride_status = "dropoff")
       => /\ totalPassengers' = totalPassengers
                                  - Get(rides, ride.ride_id).passenger_count
          /\ totalMeter' = totalMeter
                             - Get(rides, ride.ride_id).meter_reading]_vars

\* C7: processing the identical dropoff event a second time in a row leaves
\* total fare, total passengers, the active-ride counter and the registry as
\* they were after the first.
C7_DropoffIdempotent ==
  [][\A ride \in Events :
       (/\ Processes(ride)
        /\ ride.ride_status = "dropoff"
        /\ log # <<>>
        /\ log[Len(log)] = ride)
       => UNCHANGED <<totalMeter, totalPassengers, activeRides, rides>>]_vars

\* C8: a dropoff for an identifier with no registry entry, never seen since
\* the last reset, leaves the active-ride counter unchanged, creates no
\* registry entry and emits no notification.
C8_UnknownDropoffIsNoOp ==
  [][\A ride \in Events :
       (/\ Processes(ride)
        /\ ride.ride_status = "dropoff"
        /\ ~Has(rides, ride.ride_id)
        /\ LastOf(ride.ride_id) = Null)
       => /\ activeRides' = activeRides
          /\ ~Has(rides', ride.ride_id)
          /\ flashes' = flashes]_vars

\* C9: processRide calls flashMessage for an event if and only if the event's
\* identifier was in the registry when the event arrived and its status is
\* pickup or dropoff; it then calls it exactly once.  A first sighting and an
\* in-progress update never notify.
C9_NotificationRule ==
  [][\A ride \in Events :
       Processes(ride) =>
         IF Has(rides, ride.ride_id)
            /\ ride.ride_status \in {"pickup", "dropoff"}
         THEN /\ flashes' = [flashes EXCEPT ![ride.ride_status] = @ + 1]
              /\ alert'.opacity = 1
         ELSE /\ flashes' = flashes
              /\ alert' = alert]_vars

\* A silent first pickup followed by a repeat pickup of the same ride, which
\* was notified, with no other notification.
C9_Witness ==
  /\ Len(log) = 2
  /\ log[1].ride_status = "pickup"
  /\ log[2].ride_status = "pickup"
  /\ log[2].ride_id = log[1].ride_id
  /\ flashes = [NoFlashes EXCEPT !["pickup"] = 1]
  /\ alert.opacity = 1

\* C10: from a clean reset, a first pickup of a ride, then a meter update
\* carrying fare f with the same passenger count, then a dropoff carrying a
\* fare g >= f: total fare is f after the update; after the dropoff the ride
\* is gone from the registry, the counter is 0, total fare and total
\* passengers are 0 and exactly one dropoff notification has been emitted.
C10_Lifecycle ==
  (/\ Len(log) >= 2
   /\ log[1].ride_status = "pickup"
   /\ log[2].ride_status = "enroute"
   /\ log[2].ride_id = log[1].ride_id
   /\ log[2].passenger_count = log[1].passenger_count)
  => /\ Len(log) = 2 => totalMeter = log[2].meter_reading
     /\ (/\ Len(log) = 3
         /\ log[3].ride_status = "dropoff"
         /\ log[3].ride_id = log[1].ride_id
         /\ log[3].passenger_count = log[1].passenger_count
         /\ log[3].meter_reading >= log[2].meter_reading)
        => /\ ~Has(rides, log[1].ride_id)
           /\ activeRides = 0
           /\ totalMeter = 0
           /\ totalPassengers = 0
           /\ flashes["dropoff"] = 1

\* C11: whenever a processed event leaves the active-ride counter at zero,
\* the density is reported as zero, and whenever it leaves total passengers
\* at zero, the fare per passenger is reported as zero: no division by a
\* zero denominator, no NaN or Infinity.
C11_DivisionGuard ==
  [][\A ride \in Events :
       Processes(ride) =>
         /\ activeRides' = 0 => avgDensity' = <<"num", 0>>
         /\ totalPassengers' = 0 => mpp' = <<"num", 0>>]_vars

\* The slots 0 .. n - 1 paired with the first n keys of the registry.
FirstSlots(n) ==
  [i \in 1..n |-> [index |-> i - 1, ride_id |-> Keys(rides)[i]]]

\* C12: on a tick while connected with n < maxNumRideCards active rides,
\* cycle() passes exactly the n rides to refreshCard, one per ride, in slots
\* 0 .. n - 1, and no card of another slot is created or changed.
C12_WindowBelowCap ==
  [][(Tick /\ IsOpen /\ activeRides < maxNumRideCards) =>
       /\ refreshed' = FirstSlots(activeRides)
       /\ Len(cards') >= Len(cards)
       /\ \A k \in 1..Len(cards') :
            \/ cards'[k].index < activeRides
            \/ k <= Len(cards) /\ cards'[k] = cards[k]]_vars

\* C16: a tick refreshes or creates no card unless the current socket exists
\* and is open; a tick refreshes at most maxNumRideCards rides, exactly that
\* many when the active-ride count is at least maxNumRideCards; and never are
\* more than maxNumRideCards cards displayed.
C16_SchedulerBounds ==
  [][/\ Tick =>
          /\ ~IsOpen => (refreshed' = <<>> /\ cards' = cards)
          /\ Len(refreshed') <= maxNumRideCards
          /\ (IsOpen /\ activeRides >= maxNumRideCards)
               => Len(refreshed') = maxNumRideCards
     /\ Len(cards') <= maxNumRideCards]_vars

\* A tick of a connected session with ten active rides has refreshed nine of
\* them, the nine cards are shown, and a tick has also run while disconnected.
C16_Witness ==
  /\ IsOpen
  /\ activeRides = maxNumRideCards + 1
  /\ Len(refreshed) = maxNumRideCards
  /\ Len(cards) = maxNumRideCards
  /\ refreshed[1].ride_id = 2

\* The registry is empty, the aggregate counters are zero, no card is shown.
Clean ==
  /\ rides = <<>>
  /\ totalMeter = 0
  /\ totalPassengers = 0
  /\ activeRides = 0
  /\ totalUpdates = 0
  /\ cards = <<>>

\* The step is the open event of the current socket.
CurrentOpens == IF ws = 0 THEN FALSE ELSE OnOpen(ws)

\* C13: whenever the current socket's open event occurs, the registry is
\* empty, the aggregate counters are zero and no card is displayed.
C13_CleanStartOnConnect == [][CurrentOpens => Clean']_vars

\* The step is the close or error event of the current socket, which was open.
OpenSocketGoesDown == IF IsOpen THEN OnClose(ws) \/ OnError(ws) ELSE FALSE

\* The step is a call of connect() that creates a socket.
Connects == Len(sockets') = Len(sockets) + 1

\* C14, as stated: when the open socket closes or errors, the registry is
\* emptied and the aggregate counters are zeroed.
C14_ResetOnTransportClose ==
  [][OpenSocketGoesDown =>
       /\ rides' = <<>>
       /\ totalMeter' = 0
       /\ totalPassengers' = 0
       /\ activeRides' = 0
       /\ totalUpdates' = 0]_vars

\* C14, amended: when the open socket closes or errors, only the logo is
\* marked disconnected, and the registry, the aggregate counters, the sequence
\* counter and the cards keep their values; the reset runs in the next call of
\* connect() that creates a socket, after which the registry is empty, the
\* counters are zero and no card is shown.
C14_ResetAtNextConnect ==
  [][/\ OpenSocketGoesDown =>
          /\ logo' = "disconnected"
          /\ UNCHANGED <<rides, totalMeter, totalPassengers, activeRides,
                         totalUpdates, messageSeq, cards>>
     /\ Connects => (Clean' /\ messageSeq' = 0)]_vars

\* The only socket was open, a ride was picked up, and the socket has closed:
\* the ride and the counters are still there.
C14_Witness ==
  /\ ws = 1
  /\ sockets = <<CLOSED>>
  /\ logo = "disconnected"
  /\ rides # <<>>
  /\ activeRides = 1
  /\ totalUpdates = 1

\* The user has disconnected, or the current socket is closing or closed.
Disconnected ==
  IF ws = 0 THEN sockets # <<>> ELSE sockets[ws] \in {CLOSING, CLOSED}

\* C15: from a disconnect until the next connect, no message and no timer
\* event changes the registry, the aggregate counters, the sequence counter
\* or the displayed cards.
C15_NoMutationWhileDisconnected ==
  [][(Disconnected /\ ~Connects) =>
       UNCHANGED <<rides, totalMeter, totalPassengers, activeRides,
                   totalUpdates, messageSeq, cards>>]_vars

\* The step is connect() called while the current socket is open.
UserDisconnects == IsOpen /\ ws' # ws

\* C17: connect() called while the current socket is open closes the socket,
\* discards the reference and empties the registry, and leaves the total fare,
\* the total passengers, the active-ride counter, the update count, the
\* sequence counter and the displayed cards unchanged.
C17_UserDisconnect ==
  [][UserDisconnects =>
       /\ sockets' = [sockets EXCEPT ![ws] = CLOSING]
       /\ ws' = 0
       /\ rides' = <<>>
       /\ UNCHANGED <<totalMeter, totalPassengers, activeRides, totalUpdates,
                      messageSeq, cards>>]_vars

\* The user has disconnected a session in which one ride with a passenger and
\* a fare was active: the registry is empty, the counters still count it.
C17_Witness ==
  /\ ws = 0
  /\ sockets = <<CLOSING>>
  /\ rides = <<>>
  /\ activeRides = 1
  /\ totalPassengers = 1
  /\ totalMeter = 1
  /\ totalUpdates = 1
  /\ messageSeq = 1

\* C18: a first sighting or a non-terminal re-touch of a ride assigns it the
\* current value of messageSeq, greater than every number in the registry,
\* and then increments messageSeq; a dropoff of a tracked ride leaves
\* messageSeq alone; and the rides of the registry always carry pairwise
\* distinct sequence numbers, all less than messageSeq.
C18_SequenceNumbers ==
  [][/\ \A ride \in Events :
          Processes(ride) =>
            IF Has(rides, ride.ride_id) /\ ride.ride_status = "dropoff"
            THEN messageSeq' = messageSeq
            ELSE /\ Has(rides', ride.ride_id)
                 /\ Get(rides', ride.ride_id).sequenceNumber = messageSeq
                 /\ messageSeq' = messageSeq + 1
                 /\ \A k \in 1..Len(rides) :
                      rides[k].sequenceNumber < messageSeq
     /\ \A i, j \in 1..Len(rides') :
          i # j => rides'[i].sequenceNumber # rides'[j].sequenceNumber
     /\ \A i \in 1..Len(rides') : rides'[i].sequenceNumber < messageSeq']_vars

\* Two rides were first seen one after the other in a session: they carry the
\* numbers 0 and 1 and the counter stands at 2.
C18_Witness ==
  /\ Len(log) = 2
  /\ Len(rides) = 2
  /\ rides[1].sequenceNumber = 0
  /\ rides[2].sequenceNumber = 1
  /\ messageSeq = 2

\* The sockets whose message handler can still run: connecting or open.
Live == {s \in 1..Len(sockets) : sockets[s] \in {CONNECTING, OPEN}}

\* C19: at most one socket created by connect() is connecting or open, so
\* connect() never creates a socket while an earlier one is still live.
C19_SingleInboundStream == Cardinality(Live) <= 1

\* The slots that have a card.
SlotsOf(cs) == {cs[k].index : k \in 1..Len(cs)}

\* C20: no two displayed cards carry the same slot index, and a tick creates
\* a card only for the refreshed slots that had no card.
C20_OneCardPerSlot ==
  [][/\ \A i, j \in 1..Len(cards') :
          i # j => cards'[i].index # cards'[j].index
     /\ (Tick /\ IsOpen) =>
          Len(cards') =
            Len(cards) + Cardinality(SlotsOf(refreshed') \ SlotsOf(cards))]_vars

====
